---- MODULE Spec2Model ----
(***************************************************************************)
(* The connection/session manager of the torque dashboard                  *)
(* (src/Torque_dashboad.py, class TorqueDashboard).                        *)
(*                                                                         *)
(* One foreground (Qt) thread owns the dashboard object and runs the slots *)
(* and the timer callback; background threads (scan, connection/read,      *)
(* disconnect) talk to it through queued signals.  A signal emitted from a *)
(* background thread is queued and its slot runs later on the foreground   *)
(* thread; a signal emitted on the foreground thread runs its slot at      *)
(* once.                                                                   *)
(***************************************************************************)
EXTENDS Integers, Sequences, FiniteSets, TLC

\* ------------------------------------------------------------- bounds
\* connection threads that may be started in one run
MaxAttempts == 2
\* scan threads that may be started in one run
MaxScans == 1
\* successful characteristic reads in one run
MaxReads == 2
\* readings queued or saved in one run of the readings pipeline
MaxSamples == 2

\* ---------------------------------------------------------- constants
max_retries == 3

None == "None"
\* self.ble_client before any client was built
NoClient == 0
Workers == 1 .. MaxAttempts
Scanners == 1 .. MaxScans

\* ------------------------------------------------------ device names
\* A name is a sequence of characters; NoName is a device without a name.
NoName == <<>>
NamePattern == <<"E", "S", "P", "3", "2", "_", "T", "o">>
NameTorque == NamePattern \o <<"r", "q">>
NameOther == <<"E", "S", "P", "3", "2", "_", "T">>
NameUnknown == <<"U", "n", "k", "n", "o", "w", "n">>

\* `pat in name` of Python: pat occurs as a contiguous slice of name
Contains(pat, name) ==
    \E i \in 0 .. (Len(name) - Len(pat)) :
        \A k \in 1 .. Len(pat) : name[i + k] = pat[k]

\* device.name or "Unknown"
DisplayName(name) == IF name = NoName THEN NameUnknown ELSE name

\* if device_name and ("ESP32_To" in device_name)
Matches(dev) ==
    /\ DisplayName(dev.name) # <<>>
    /\ Contains(NamePattern, DisplayName(dev.name))

DevTorqueA == [address |-> "A1", name |-> NameTorque]
DevTorqueB == [address |-> "A2", name |-> NamePattern]
DevOther == [address |-> "A3", name |-> NameOther]
DevNoName == [address |-> "A4", name |-> NoName]

\* what one enumeration (BleakScanner.discover) may return
ScanResults ==
    { <<>>, <<DevNoName, DevOther>>, <<DevOther, DevTorqueA>>,
      <<DevTorqueA, DevTorqueB>> }

FirstMatch_Last(devs) ==
    IF \E i \in 1 .. Len(devs) : Matches(devs[i])
    THEN CHOOSE i \in 1 .. Len(devs) :
            /\ Matches(devs[i])
            /\ \A j \in (i + 1) .. Len(devs) : ~Matches(devs[j])
    ELSE 0

\* index of the first matching device of an enumeration, 0 when there is none
FirstMatch(devs) ==
    IF \E i \in 1 .. Len(devs) : Matches(devs[i])
    THEN CHOOSE i \in 1 .. Len(devs) :
            /\ Matches(devs[i])
            /\ \A j \in 1 .. (i - 1) : ~Matches(devs[j])
    ELSE 0

\* ------------------------------------------------------------- state
VARIABLES
    d,          \* the dashboard object and the module globals it uses
    queue,      \* signals queued for the foreground thread, oldest first
    wpc,        \* connection thread -> where it is in its code
    wval,       \* connection thread -> value read and not yet emitted
    clientConn, \* BleakClient (one per connection thread) -> is_connected
    spc,        \* scan thread -> where it is in its code
    disc_done,  \* disconnect threads that have run
    nread,      \* the sensor's payloads are numbered: how many were read
    hist,       \* history: bookkeeping of the episodes the properties name
    note        \* history: what the last foreground step did, if notable

vars == <<d, queue, wpc, wval, clientConn, spc, disc_done, nread, hist, note>>

\* ----------------------------------------------------------- signals
Sig(sig, arg, by) == [sig |-> sig, arg |-> arg, by |-> by]

IsStatus(m, status) == m.sig = "connection_status" /\ m.arg = status

\* ----------------------------------------------------------- history
\* a read loop that has passed its loop condition at least once
InLoop(w) == wpc[w] \in {"reading", "emit", "sleep"}
\* a connection attempt that has not yet reported its result
InFlight(w) == w <= d.conn_started /\ wpc[w] \in {"start", "connecting", "check"}
\* an attempt whose result the foreground thread has not yet processed
Pending(w) ==
    \/ InFlight(w)
    \/ \E i \in 1 .. Len(queue) : queue[i].sig = "connection_status" /\ queue[i].by = w

HistInit ==
    [ stale |-> {},         \* attempts pending when a stop was requested
      halted |-> {},        \* read loops active when a stop was requested
      stopped |-> {},       \* clients that were self.ble_client at a stop
      lost |-> FALSE,       \* the link dropped while Streaming; nothing since
                            \* has connected, and the user has not stepped in
      err |-> FALSE,        \* a read loop emitted error_occurred since the drop
      tick |-> "none",      \* what the first monitor tick after the drop did
      autoStarts |-> 0 ]    \* attempts monitor_connection started since the drop

\* the user steps in, or an attempt connects: the episode is over
HistEnd ==
    [hist EXCEPT !.lost = FALSE, !.err = FALSE, !.tick = "none", !.autoStarts = 0]

\* safe_disconnect_device / closeEvent: a stop is requested
HistStop ==
    [HistEnd EXCEPT !.stale = @ \cup {w \in Workers : Pending(w)},
                    !.halted = @ \cup {w \in Workers : InLoop(w)},
                    !.stopped = @ \cup ({d.ble_client} \ {NoClient})]

HistDispatch(m) ==
    IF m.sig = "device_found" THEN HistEnd
    ELSE IF IsStatus(m, "connected") THEN [HistEnd EXCEPT !.stale = @ \ {m.by}]
    ELSE IF m.sig = "connection_status" THEN [hist EXCEPT !.stale = @ \ {m.by}]
    ELSE hist

HistMonitor(started) ==
    IF ~hist.lost THEN hist
    ELSE [hist EXCEPT
            !.autoStarts = IF started THEN @ + 1 ELSE @,
            !.tick = IF @ # "none" THEN @
                     ELSE IF started THEN "retried"
                     ELSE IF d.app_running /\ d.auto_retry /\ d.retry_count < max_retries
                     THEN "skipped"
                     ELSE "ineligible"]

\* the transport of client c drops
HistDrop(c) ==
    IF /\ ~d.closed /\ d.is_connected /\ d.ble_client = c /\ ~hist.lost
       /\ \E w \in Workers : InLoop(w)
    THEN [hist EXCEPT !.lost = TRUE, !.err = FALSE, !.tick = "none", !.autoStarts = 0]
    ELSE hist

\* the read loop of thread w ends; reported says whether it emitted an error
HistLoopEnd(w, reported) ==
    [hist EXCEPT !.halted = @ \ {w},
                 !.err = IF hist.lost /\ reported THEN TRUE ELSE @]

\* what the foreground thread's step did that the properties below name
NoteDispatch(m) ==
    IF IsStatus(m, "connected") /\ d.retry_count > 0 THEN "reset_by_connected"
    ELSE IF m.sig = "device_found" /\ d.retry_count > 0 THEN "reset_by_discovery"
    ELSE "none"

NoteConnect ==
    IF d.SENSOR_ADDRESS = None THEN "error_no_address" ELSE "none"

NoteMonitor ==
    IF d.app_running /\ d.is_connected /\ d.ble_client # NoClient /\ ~clientConn[d.ble_client]
    THEN "monitor_saw_loss" ELSE "none"

\* ------------------------------------------- foreground thread: slots

on_error_occurred_Ends(s) ==
    [s EXCEPT !.app_running = FALSE,
              !.is_connected = FALSE,
              !.connection_active = FALSE,
              !.btn_connect = TRUE,
              !.btn_disconnect = FALSE]

on_error_occurred(s) ==
    [s EXCEPT !.is_connected = FALSE,
              !.connection_active = FALSE,
              !.btn_connect = TRUE,
              !.btn_disconnect = FALSE]

RetryAfterConnected_Keep(rc) == rc

\* self.retry_count = 0 of the "connected" branch
RetryAfterConnected(rc) == 0

on_connection_status(s, status) ==
    IF status = "connected"
    THEN [s EXCEPT !.is_connected = TRUE,
                   !.connection_active = TRUE,
                   !.btn_connect = FALSE,
                   !.btn_disconnect = TRUE,
                   !.retry_count = RetryAfterConnected(@)]
    ELSE IF status = "failed"
    THEN [s EXCEPT !.is_connected = FALSE,
                   !.connection_active = FALSE,
                   !.btn_connect = TRUE,
                   !.btn_disconnect = FALSE]
    ELSE s

on_device_found(s, address) ==
    [s EXCEPT !.SENSOR_ADDRESS = address,
              !.btn_connect = TRUE,
              !.retry_count = 0]

on_scan_completed(s, success) ==
    [s EXCEPT !.btn_scan = TRUE]

Classify_GE(torque_value, threshold) ==
    IF torque_value >= threshold THEN "high" ELSE "normal"

\* line 542: if torque_value > THRESHOLD
Classify(torque_value, threshold) ==
    IF torque_value > threshold THEN "high" ELSE "normal"

on_data_received(s, torque_value) ==
    [s EXCEPT !.saved = Append(@, torque_value),
              !.torque_label = Classify(torque_value, s.THRESHOLD)]

\* the slider's valueChanged slot; value is the slider's new position
update_threshold(s, value) ==
    [s EXCEPT !.THRESHOLD = value]

\* the slot connected to each signal
Slot(s, m) ==
    CASE m.sig = "data_received" -> on_data_received(s, m.arg)
      [] m.sig = "connection_status" -> on_connection_status(s, m.arg)
      [] m.sig = "device_found" -> on_device_found(s, m.arg)
      [] m.sig = "error_occurred" -> on_error_occurred(s)
      [] m.sig = "scan_completed" -> on_scan_completed(s, m.arg)

\* ---------------------------------------- foreground thread: commands

safe_scan_devices(s) ==
    [s EXCEPT !.btn_scan = FALSE,
              !.scan_started = @ + 1]

safe_connect_device_NoCheck(s) ==
    [s EXCEPT !.connection_active = TRUE,
              !.btn_connect = FALSE,
              !.conn_started = @ + 1]

\* the error of line 395 is emitted on the foreground thread, so its slot
\* runs inside the call
safe_connect_device(s) ==
    IF s.SENSOR_ADDRESS = None
    THEN on_error_occurred(s)
    ELSE [s EXCEPT !.connection_active = TRUE,
                   !.btn_connect = FALSE,
                   !.conn_started = @ + 1]

safe_disconnect_device(s) ==
    LET t == [s EXCEPT !.is_connected = FALSE,
                       !.connection_active = FALSE,
                       !.btn_disconnect = FALSE,
                       !.btn_connect = TRUE]
    IN  IF t.ble_client # NoClient
        THEN [t EXCEPT !.disc_started = @ + 1]
        ELSE t

toggle_auto_retry(s) ==
    [s EXCEPT !.auto_retry = ~@]

\* the link of the client self.ble_client names is down
ClientDown(s, conn) == s.ble_client # NoClient /\ ~conn[s.ble_client]

MonitorLost_Keep(s) == s

\* lines 274-275: the session leaves Streaming
MonitorLost(s) ==
    [s EXCEPT !.is_connected = FALSE, !.connection_active = FALSE]

monitor_connection_AlwaysRetry(s, conn) ==
    IF ~s.app_running THEN s
    ELSE IF s.is_connected /\ ClientDown(s, conn)
    THEN safe_connect_device([MonitorLost(s) EXCEPT !.retry_count = @ + 1])
    ELSE s

monitor_connection_Inclusive(s, conn) ==
    IF ~s.app_running THEN s
    ELSE IF s.is_connected /\ ClientDown(s, conn)
    THEN LET t == MonitorLost(s)
         IN  IF t.auto_retry /\ t.retry_count <= max_retries
             THEN safe_connect_device([t EXCEPT !.retry_count = @ + 1])
             ELSE t
    ELSE s

monitor_connection(s, conn) ==
    IF ~s.app_running THEN s
    ELSE IF s.is_connected /\ ClientDown(s, conn)
    THEN LET t == MonitorLost(s)
         IN  IF t.auto_retry /\ t.retry_count < max_retries
             THEN safe_connect_device([t EXCEPT !.retry_count = @ + 1])
             ELSE t
    ELSE s

closeEvent(s, conn) ==
    LET t == IF ~s.force_close
             THEN LET u == [s EXCEPT !.app_running = FALSE,
                                     !.is_connected = FALSE,
                                     !.connection_active = FALSE]
                  IN  IF u.ble_client # NoClient /\ conn[u.ble_client]
                      THEN safe_disconnect_device(u)
                      ELSE u
             ELSE s
    IN  [t EXCEPT !.closed = TRUE]

force_close_app(s, conn) ==
    closeEvent([s EXCEPT !.force_close = TRUE, !.app_running = FALSE], conn)

\* --------------------------------------------------------------- Init
Init ==
    /\ d = [ app_running |-> TRUE, force_close |-> FALSE, closed |-> FALSE,
             ble_client |-> NoClient, is_connected |-> FALSE,
             connection_active |-> FALSE,
             retry_count |-> 0, auto_retry |-> FALSE,
             SENSOR_ADDRESS |-> None, THRESHOLD |-> 100,
             torque_label |-> "initial",
             btn_scan |-> TRUE, btn_connect |-> FALSE, btn_disconnect |-> FALSE,
             conn_started |-> 0, scan_started |-> 0, disc_started |-> 0,
             saved |-> <<>> ]
    /\ queue = <<>>
    /\ wpc = [w \in Workers |-> "start"]
    /\ wval = [w \in Workers |-> 0]
    /\ clientConn = [w \in Workers |-> FALSE]
    /\ spc = [s \in Scanners |-> "start"]
    /\ disc_done = 0
    /\ nread = 0
    /\ hist = HistInit
    /\ note = "none"

\* ------------------------------------------------- foreground actions
Running == ~d.closed

\* the event loop delivers the oldest queued signal to its slot
Dispatch ==
    /\ Running
    /\ queue # <<>>
    /\ LET m == Head(queue)
       IN  /\ d' = Slot(d, m)
           /\ hist' = HistDispatch(m)
           /\ note' = NoteDispatch(m)
    /\ queue' = Tail(queue)
    /\ UNCHANGED <<wpc, wval, clientConn, spc, disc_done, nread>>

\* the 5 s connection_monitor timer fires
MonitorTick ==
    /\ Running
    /\ d' = monitor_connection(d, clientConn)
    /\ d'.conn_started <= MaxAttempts
    /\ hist' = HistMonitor(d'.conn_started > d.conn_started)
    /\ note' = NoteMonitor
    /\ UNCHANGED <<queue, wpc, wval, clientConn, spc, disc_done, nread>>

ClickScan ==
    /\ Running
    /\ d.btn_scan
    /\ d.scan_started < MaxScans
    /\ d' = safe_scan_devices(d)
    /\ note' = "none"
    /\ UNCHANGED <<queue, wpc, wval, clientConn, spc, disc_done, nread, hist>>

ClickConnect ==
    /\ Running
    /\ d.btn_connect
    /\ d' = safe_connect_device(d)
    /\ d'.conn_started <= MaxAttempts
    /\ hist' = HistEnd
    /\ note' = NoteConnect
    /\ UNCHANGED <<queue, wpc, wval, clientConn, spc, disc_done, nread>>

ClickDisconnect ==
    /\ Running
    /\ d.btn_disconnect
    /\ d' = safe_disconnect_device(d)
    /\ hist' = HistStop
    /\ note' = "none"
    /\ UNCHANGED <<queue, wpc, wval, clientConn, spc, disc_done, nread>>

ClickAutoRetry ==
    /\ Running
    /\ d' = toggle_auto_retry(d)
    /\ hist' = HistEnd
    /\ note' = "none"
    /\ UNCHANGED <<queue, wpc, wval, clientConn, spc, disc_done, nread>>

\* the user closes the window: the event loop ends with it, and what is
\* still queued is never delivered
CloseWindow ==
    /\ Running
    /\ d' = closeEvent(d, clientConn)
    /\ hist' = HistStop
    /\ note' = "none"
    /\ queue' = <<>>
    /\ UNCHANGED <<wpc, wval, clientConn, spc, disc_done, nread>>

ClickForceClose ==
    /\ Running
    /\ d' = force_close_app(d, clientConn)
    /\ hist' = HistStop
    /\ note' = "none"
    /\ queue' = <<>>
    /\ UNCHANGED <<wpc, wval, clientConn, spc, disc_done, nread>>

\* ---------------------------------------- connection thread (one per attempt)
\* run_connection_safe / connect_ble_device_safe; thread w builds client w.
\* Signals are posted to the foreground event loop; once the window is
\* closed the loop has ended and nothing posted is delivered any more.
Emit(sigs) == IF d.closed THEN <<>> ELSE queue \o sigs

\* line 430: self.ble_client = BleakClient(SENSOR_ADDRESS)
WCreate(w) ==
    /\ w <= d.conn_started
    /\ wpc[w] = "start"
    /\ d' = [d EXCEPT !.ble_client = w]
    /\ wpc' = [wpc EXCEPT ![w] = "connecting"]
    /\ UNCHANGED <<queue, wval, clientConn, spc, disc_done, nread, hist, note>>

\* line 431: the awaited connect() of the client this thread built returns
WConnectOk(w) ==
    /\ wpc[w] = "connecting"
    /\ clientConn' = [clientConn EXCEPT ![w] = TRUE]
    /\ wpc' = [wpc EXCEPT ![w] = "check"]
    /\ UNCHANGED <<d, queue, wval, spc, disc_done, nread, hist, note>>

\* line 431 raises: lines 452-454
WConnectFail(w) ==
    /\ wpc[w] = "connecting"
    /\ queue' = Emit(<<Sig("error_occurred", "BLE connection failed", w),
                      Sig("connection_status", "failed", w)>>)
    /\ wpc' = [wpc EXCEPT ![w] = "done"]
    /\ UNCHANGED <<d, wval, clientConn, spc, disc_done, nread, hist, note>>

\* the status emitted at line 433-434 / 449-450
StatusAfterConnect(connected) == IF connected THEN "connected" ELSE "failed"

\* line 433: if self.ble_client.is_connected
WCheck(w) ==
    /\ wpc[w] = "check"
    /\ LET st == StatusAfterConnect(clientConn[d.ble_client])
       IN  /\ queue' = Emit(<<Sig("connection_status", st, w)>>)
           /\ wpc' = [wpc EXCEPT ![w] = IF st = "connected" THEN "loop" ELSE "done"]
    /\ UNCHANGED <<d, wval, clientConn, spc, disc_done, nread, hist, note>>

\* lines 437-440: the condition of the read loop
LoopCondition(s, conn) ==
    /\ conn[s.ble_client]
    /\ s.is_connected
    /\ s.connection_active
    /\ s.app_running

\* the loop condition is evaluated: on entry, and after each sleep
WLoop(w) ==
    /\ wpc[w] \in {"loop", "sleep"}
    /\ wpc' = [wpc EXCEPT ![w] = IF LoopCondition(d, clientConn)
                                 THEN "reading" ELSE "done"]
    /\ hist' = IF LoopCondition(d, clientConn) THEN hist ELSE HistLoopEnd(w, FALSE)
    /\ UNCHANGED <<d, queue, wval, clientConn, spc, disc_done, nread, note>>

\* line 442 returns a payload; line 443 decodes it
WReadOk(w) ==
    /\ wpc[w] = "reading"
    /\ clientConn[d.ble_client]
    /\ nread < MaxReads
    /\ wval' = [wval EXCEPT ![w] = nread + 1]
    /\ nread' = nread + 1
    /\ wpc' = [wpc EXCEPT ![w] = "emit"]
    /\ UNCHANGED <<d, queue, clientConn, spc, disc_done, hist, note>>

\* line 442 raises: lines 446-448
WReadFail(w) ==
    /\ wpc[w] = "reading"
    /\ queue' = Emit(<<Sig("error_occurred", "Data read error", w)>>)
    /\ wpc' = [wpc EXCEPT ![w] = "done"]
    /\ hist' = HistLoopEnd(w, TRUE)
    /\ UNCHANGED <<d, wval, clientConn, spc, disc_done, nread, note>>

\* line 444: data_received.emit(torque_value); line 445 starts the sleep
WEmit(w) ==
    /\ wpc[w] = "emit"
    /\ queue' = Emit(<<Sig("data_received", wval[w], w)>>)
    /\ wval' = [wval EXCEPT ![w] = 0]
    /\ wpc' = [wpc EXCEPT ![w] = "sleep"]
    /\ UNCHANGED <<d, clientConn, spc, disc_done, nread, hist, note>>

\* line 418: wait_for(..., timeout=30.0) cancels the coroutine at an await
\* (connect, read_gatt_char or sleep); lines 420-422
WTimeout(w) ==
    /\ wpc[w] \in {"connecting", "reading", "sleep"}
    /\ queue' = Emit(<<Sig("error_occurred", "Connection timeout", w),
                      Sig("connection_status", "failed", w)>>)
    /\ hist' = HistLoopEnd(w, wpc[w] # "connecting")
    /\ wpc' = [wpc EXCEPT ![w] = "done"]
    /\ UNCHANGED <<d, wval, clientConn, spc, disc_done, nread, note>>

\* ----------------------------------------------------- disconnect thread
\* run_disconnect_safe: disconnects whatever self.ble_client names when it runs
RunDisconnect ==
    /\ disc_done < d.disc_started
    /\ disc_done' = disc_done + 1
    /\ clientConn' = IF d.ble_client # NoClient
                     THEN [clientConn EXCEPT ![d.ble_client] = FALSE]
                     ELSE clientConn
    /\ UNCHANGED <<d, queue, wpc, wval, spc, nread, hist, note>>

\* line 511 raises: lines 512-513 only log, the client stays as it was
RunDisconnectFail ==
    /\ disc_done < d.disc_started
    /\ disc_done' = disc_done + 1
    /\ UNCHANGED <<d, queue, wpc, wval, clientConn, spc, nread, hist, note>>

\* ------------------------------------------------------------ scan thread
\* lines 357-367: the signals the loop over the devices emits
FoundSignals(devs, s) ==
    IF FirstMatch(devs) = 0 THEN <<>>
    ELSE <<Sig("device_found", devs[FirstMatch(devs)].address, s)>>

\* line 346: finally: scan_completed.emit(True)
FinallySignal(s) == Sig("scan_completed", TRUE, s)

\* line 352: the enumeration returns devs; lines 353-370 loop over them,
\* and the finally of run_scan_safe follows.  Nothing of the thread is
\* visible to the others before its first signal, so it is one step.
SRun(s, devs) ==
    /\ s <= d.scan_started
    /\ spc[s] = "start"
    /\ queue' = Emit(FoundSignals(devs, s) \o <<FinallySignal(s)>>)
    /\ spc' = [spc EXCEPT ![s] = "done"]
    /\ UNCHANGED <<d, wpc, wval, clientConn, disc_done, nread, hist, note>>

\* line 337: wait_for(..., timeout=15.0) expires during the enumeration;
\* lines 339-341.  scan_completed(False) lets the foreground thread enable
\* the Scan button while this thread has still to run its finally.
STimeout(s) ==
    /\ s <= d.scan_started
    /\ spc[s] = "start"
    /\ queue' = Emit(<<Sig("error_occurred", "Scan timeout", s),
                       Sig("scan_completed", FALSE, s)>>)
    /\ spc' = [spc EXCEPT ![s] = "finally"]
    /\ UNCHANGED <<d, wpc, wval, clientConn, disc_done, nread, hist, note>>

\* lines 345-346 after the timeout handler; the thread ends
SFinally(s) ==
    /\ spc[s] = "finally"
    /\ queue' = Emit(<<FinallySignal(s)>>)
    /\ spc' = [spc EXCEPT ![s] = "done"]
    /\ UNCHANGED <<d, wpc, wval, clientConn, disc_done, nread, hist, note>>

\* self.scan_thread.is_alive() of scan thread s
ScanAlive(s) == s <= d.scan_started /\ spc[s] # "done"

\* line 352 raises: lines 372-373, then the finally
SFail(s) ==
    /\ s <= d.scan_started
    /\ spc[s] = "start"
    /\ queue' = Emit(<<Sig("error_occurred", "BLE scan failed", s), FinallySignal(s)>>)
    /\ spc' = [spc EXCEPT ![s] = "done"]
    /\ UNCHANGED <<d, wpc, wval, clientConn, disc_done, nread, hist, note>>

\* ------------------------------------------------------------ environment
\* the link of client c is lost (the sensor goes away)
LinkDrop(c) ==
    /\ clientConn[c]
    /\ clientConn' = [clientConn EXCEPT ![c] = FALSE]
    /\ hist' = HistDrop(c)
    /\ UNCHANGED <<d, queue, wpc, wval, spc, disc_done, nread, note>>

\* ------------------------------------------- readings and the threshold
\* int.from_bytes(value, byteorder="little")
RECURSIVE IntFromBytes(_)
IntFromBytes(bytes) ==
    IF bytes = <<>> THEN 0
    ELSE Head(bytes) + 256 * IntFromBytes(Tail(bytes))

\* payloads the characteristic may hold
Payloads == { <<9>>, <<100>>, <<120>>, <<121, 0>>, <<0, 1>> }

\* positions of slider_threshold (its range is 10 .. 200)
SliderValues == {10, 100, 120, 200}

simulated_values == <<45, 85, 120, 165, 200, 175, 130, 90, 60, 30>>

\* lines 442-444 of a running read loop: a payload is read, decoded and
\* emitted
ReadAndEmit(payload) ==
    /\ Running
    /\ Len(queue) + Len(d.saved) < MaxSamples
    /\ queue' = Append(queue, Sig("data_received", IntFromBytes(payload), 1))
    /\ UNCHANGED <<d, wpc, wval, clientConn, spc, disc_done, nread, hist, note>>

\* the user moves the threshold slider
MoveSlider(value) ==
    /\ Running
    /\ value # d.THRESHOLD
    /\ d' = update_threshold(d, value)
    /\ note' = "none"
    /\ UNCHANGED <<queue, wpc, wval, clientConn, spc, disc_done, nread, hist>>

\* the Simulate button: the signal is emitted on the foreground thread, so
\* on_data_received runs inside the call
ClickSimulate(i) ==
    /\ Running
    /\ Len(queue) + Len(d.saved) < MaxSamples
    /\ d' = on_data_received(d, simulated_values[i])
    /\ note' = "none"
    /\ UNCHANGED <<queue, wpc, wval, clientConn, spc, disc_done, nread, hist>>

NextThreshold ==
    \/ Dispatch
    \/ \E payload \in Payloads : ReadAndEmit(payload)
    \/ \E value \in SliderValues : MoveSlider(value)
    \/ \E i \in 1 .. Len(simulated_values) : ClickSimulate(i)

\* the readings pipeline alone: readings arrive, the slider moves
SpecThreshold == Init /\ [][NextThreshold]_vars

\* ------------------------------------------------------------------ Next
Foreground ==
    \/ Dispatch
    \/ MonitorTick
    \/ ClickScan
    \/ ClickConnect
    \/ ClickDisconnect
    \/ ClickAutoRetry
    \/ CloseWindow
    \/ ClickForceClose

ConnectionThread(w) ==
    \/ WCreate(w)
    \/ WConnectOk(w)
    \/ WConnectFail(w)
    \/ WCheck(w)
    \/ WLoop(w)
    \/ WReadOk(w)
    \/ WReadFail(w)
    \/ WEmit(w)
    \/ WTimeout(w)

ScanThread(s) ==
    \/ \E devs \in ScanResults : SRun(s, devs)
    \/ STimeout(s)
    \/ SFinally(s)
    \/ SFail(s)

Next ==
    \/ Foreground
    \/ \E w \in Workers : ConnectionThread(w)
    \/ \E s \in Scanners : ScanThread(s)
    \/ RunDisconnect
    \/ RunDisconnectFail
    \/ \E c \in Workers : LinkDrop(c)

Spec == Init /\ [][Next]_vars

\* ======================================================== properties

\* C1: in every reachable state at most one read loop is active and at
\* most one connection attempt is in flight.
C1_SingleSession ==
    /\ Cardinality({w \in Workers : InLoop(w)}) <= 1
    /\ Cardinality({w \in Workers : InFlight(w)}) <= 1

\* every thread has finished and every signal was delivered
Settled ==
    /\ ~d.closed
    /\ queue = <<>>
    /\ \A w \in Workers : w <= d.conn_started => wpc[w] = "done"
    /\ disc_done = d.disc_started

\* C2: with auto_retry on, after the link was lost and while every later
\* attempt failed, monitor_connection starts a reconnection exactly
\* max_retries (3) times: never more, and once the session has settled
\* with nothing left to run (and attempts still allowed by the bound) it
\* has started all three.
C2_ThreeRetries ==
    /\ hist.lost => hist.autoStarts <= max_retries
    /\ ( /\ hist.lost /\ hist.tick # "none" /\ d.auto_retry
         /\ Settled /\ ~d.is_connected
         /\ d.conn_started < MaxAttempts )
       => hist.autoStarts = max_retries

\* C3: after the transport dropped while Streaming with a read loop
\* running, once the loop has ended and the monitor has ticked: the loss
\* was reported by an error_occurred signal, the session has left
\* Streaming, and the tick started a new attempt if auto_retry was on and
\* retry_count < max_retries.
C3_LossHandled ==
    ( /\ hist.lost /\ hist.tick # "none"
      /\ \A w \in Workers : wpc[w] \notin {"loop", "reading", "emit", "sleep"} )
    => /\ hist.err
       /\ ~d.is_connected
       /\ hist.tick # "skipped"

\* the attempt was pending when a stop was requested, or a newer one started
Stale(w) == w \in hist.stale \/ w < d.conn_started

\* C4: a "connected" status of a stale attempt (stopped by a manual
\* disconnect, or superseded by a newer attempt) never moves the session
\* from not connected back to Streaming when it is processed.
C4_StaleConnectedDiscarded ==
    [][ ( /\ Dispatch
          /\ IsStatus(Head(queue), "connected")
          /\ Stale(Head(queue).by)
          /\ ~d.is_connected )
        => ~d'.is_connected ]_vars

\* C5: a read loop that was active when a stop was requested leaves its
\* sleep only to end: the loop condition checked after the stop never
\* lets it issue another read.
C5_StopHaltsLoop ==
    [][ \A w \in hist.halted :
            wpc[w] = "sleep" => wpc'[w] \in {"sleep", "done"} ]_vars

\* C6: while an attempt is in flight or the session is Streaming, a call
\* of safe_connect_device (the Connect button is enabled, so the call can
\* be made) changes nothing: no thread is started and the session state
\* stays as it is.
C6_ConnectIdempotent ==
    ( /\ ~d.closed
      /\ d.btn_connect
      /\ d.SENSOR_ADDRESS # None
      /\ (d.is_connected \/ \E w \in Workers : InFlight(w)) )
    => safe_connect_device(d) = d

\* C7: a scan whose enumeration returns no matching device emits no
\* device_found and emits scan_completed(False), and nothing else.
C7_NoMatchReportsFalse ==
    [][ \A s \in Scanners : \A devs \in ScanResults :
            (SRun(s, devs) /\ FirstMatch(devs) = 0 /\ ~d.closed)
            => queue' = Append(queue, Sig("scan_completed", FALSE, s)) ]_vars

C9_ReadOrderDelivered ==
    /\ \A i \in 1 .. Len(d.saved) : d.saved[i] = i
    /\ ( /\ ~d.closed
         /\ \A w \in Workers : wpc[w] # "emit"
         /\ \A i \in 1 .. Len(queue) : queue[i].sig # "data_received" )
       => Len(d.saved) = nread

\* C10 as stated: whenever is_connected is True the transport client
\* exists and is connected.
C10_StreamingImpliesLink ==
    d.is_connected => (d.ble_client # NoClient /\ clientConn[d.ble_client])

\* C10 as amended: is_connected is True only with a client built; it turns
\* True only when a "connected" status is processed; a "connected" status
\* is emitted only by a thread that has just seen the client connected;
\* and the monitor tick that finds is_connected True over a dead link
\* clears it in that same tick, before any retry it starts.
C10_StreamingVerified ==
    [][ /\ d'.is_connected => d'.ble_client # NoClient
        /\ (~d.is_connected /\ d'.is_connected)
               => (Dispatch /\ IsStatus(Head(queue), "connected"))
        /\ \A i \in (Len(queue) + 1) .. Len(queue') :
               IsStatus(queue'[i], "connected")
               => (d.ble_client # NoClient /\ clientConn[d.ble_client])
        /\ (MonitorTick /\ d.is_connected /\ ClientDown(d, clientConn))
               => ~d'.is_connected ]_vars

\* the monitor found is_connected True over a dead link and cleared it
C10_Witness ==
    /\ note = "monitor_saw_loss"
    /\ ~d.is_connected
    /\ d.ble_client # NoClient
    /\ ~clientConn[d.ble_client]

\* C11: a read loop never ends silently when the cause is the transport:
\* whenever the loop ends because the client reports disconnected (the
\* stop flags still being set) or because a read fails, the thread emits
\* an error_occurred notification in that step.
C11_NoSilentLoopEnd ==
    [][ \A w \in Workers :
          ( /\ ~d.closed
            /\ wpc'[w] = "done"
            /\ \/ WReadFail(w)
               \/ ( /\ WLoop(w)
                    /\ ~clientConn[d.ble_client]
                    /\ d.is_connected /\ d.connection_active /\ d.app_running ) )
          => \E i \in (Len(queue) + 1) .. Len(queue') :
                 queue'[i].sig = "error_occurred" /\ queue'[i].by = w ]_vars

\* C12: app_running is True as long as the window is open, whatever the
\* workers and the monitor have run into; it is cleared only by closeEvent
\* and force_close_app, and no processed notification or timer tick
\* changes it.
C12_OnlyCloseEndsApp ==
    [][ /\ (d.app_running /\ ~d'.app_running) => (CloseWindow \/ ClickForceClose)
        /\ ~d'.closed => d'.app_running
        /\ (Dispatch \/ MonitorTick) => d'.app_running = d.app_running ]_vars

\* a scan ended in an error (no address was found), the error was
\* processed, and the dashboard is still running
C12_Witness ==
    /\ d.SENSOR_ADDRESS = None
    /\ d.btn_connect
    /\ \E s \in Scanners : spc[s] = "done"
    /\ queue = <<>>
    /\ d.app_running
    /\ ~d.closed

\* C13: a monitor tick that finds the link lost while auto_retry is off, or
\* while retry_count >= max_retries, starts no attempt, leaves retry_count
\* as it is and leaves the session Disconnected; the same holds of
\* monitor_connection for every value of retry_count and auto_retry put
\* into a reachable state; and an attempt is only ever started by a click
\* on Connect or by a tick that finds the link lost with auto_retry on and
\* retry_count < max_retries.
C13_NoRetryWhenIneligible ==
    [][ /\ ( /\ MonitorTick
             /\ d.is_connected /\ ClientDown(d, clientConn)
             /\ (~d.auto_retry \/ d.retry_count >= max_retries) )
           => /\ d'.conn_started = d.conn_started
              /\ d'.retry_count = d.retry_count
              /\ ~d'.is_connected /\ ~d'.connection_active
              /\ wpc' = wpc
        /\ \A rc \in 0 .. (max_retries + 1) : \A ar \in BOOLEAN :
             LET s == [d EXCEPT !.retry_count = rc, !.auto_retry = ar,
                                !.is_connected = TRUE]
                 t == monitor_connection(s, clientConn)
             IN  ( /\ d.app_running /\ ClientDown(d, clientConn)
                   /\ (~ar \/ rc >= max_retries) )
                 => /\ t.conn_started = s.conn_started
                    /\ t.retry_count = rc
                    /\ ~t.is_connected /\ ~t.connection_active
        /\ (d'.conn_started > d.conn_started)
           => \/ ClickConnect
              \/ ( /\ MonitorTick
                   /\ d.is_connected /\ ClientDown(d, clientConn)
                   /\ d.auto_retry /\ d.retry_count < max_retries ) ]_vars

\* the monitor found the link lost with auto_retry off and started nothing
C13_Witness ==
    /\ note = "monitor_saw_loss"
    /\ ~d.auto_retry
    /\ ~d.is_connected /\ ~d.connection_active
    /\ d.conn_started = 1
    /\ d.retry_count = 0

\* C14: a click on Connect while no address has been discovered runs the
\* error slot and nothing else: no connection thread is started, no thread
\* moves, no client is touched, and the session is left not connecting
\* (connection_active False) and not connected.
C14_NoAddressFailsAtOnce ==
    [][ (ClickConnect /\ d.SENSOR_ADDRESS = None)
        => /\ d' = on_error_occurred(d)
           /\ d'.conn_started = d.conn_started
           /\ ~d'.connection_active /\ ~d'.is_connected
           /\ d'.ble_client = d.ble_client
           /\ wpc' = wpc /\ clientConn' = clientConn /\ queue' = queue ]_vars

\* Connect was clicked with no address known and the error slot has run
C14_Witness ==
    /\ note = "error_no_address"
    /\ d.SENSOR_ADDRESS = None
    /\ d.conn_started = 0
    /\ ~d.connection_active
    /\ d.btn_connect

\* C15: an attempt whose connect raises, times out, or returns with the
\* client not connected emits an error_occurred notification followed by
\* the "failed" status, and processing the "failed" status leaves the
\* session Disconnected (is_connected and connection_active False).
C15_FailedAttemptReported ==
    [][ /\ \A w \in Workers :
             ( /\ ~d.closed
               /\ \/ WConnectFail(w)
                  \/ (WTimeout(w) /\ wpc[w] = "connecting")
                  \/ (WCheck(w) /\ wpc'[w] = "done") )
             => /\ Len(queue') = Len(queue) + 2
                /\ queue'[Len(queue) + 1].sig = "error_occurred"
                /\ queue'[Len(queue) + 1].by = w
                /\ IsStatus(queue'[Len(queue) + 2], "failed")
                /\ queue'[Len(queue) + 2].by = w
        /\ (Dispatch /\ IsStatus(Head(queue), "failed"))
             => (~d'.is_connected /\ ~d'.connection_active) ]_vars

\* C16: a scan that enumerates devs emits at most one device_found; it
\* emits one when some device's name contains the pattern, and the address
\* it carries is that of the first such device in enumeration order, so a
\* device without the pattern in its name, and a matching device later in
\* the enumeration, are never reported.
C16_FirstMatchOnly ==
    [][ \A s \in Scanners : \A devs \in ScanResults :
          (SRun(s, devs) /\ ~d.closed)
          => LET found == {i \in (Len(queue) + 1) .. Len(queue') :
                               queue'[i].sig = "device_found"}
                 named == {k \in 1 .. Len(devs) : Contains(NamePattern, devs[k].name)}
             IN  /\ Cardinality(found) <= 1
                 /\ (named # {}) => (found # {})
                 /\ \A i \in found :
                       \E k \in named :
                           /\ queue'[i].arg = devs[k].address
                           /\ \A j \in named : k <= j ]_vars

\* a scan has reported the device at A1, the first match of its enumeration
C16_Witness ==
    /\ \E s \in Scanners : spc[s] = "done"
    /\ Len(queue) = 2
    /\ queue[1].sig = "device_found" /\ queue[1].arg = "A1"
    /\ queue[2].sig = "scan_completed"

\* the step labels the reading v against the threshold it finds
LabelledNow(v) ==
    /\ (v > d.THRESHOLD) => d'.torque_label = "high"
    /\ (v <= d.THRESHOLD) => d'.torque_label = "normal"
    /\ d'.THRESHOLD = d.THRESHOLD

\* C17: a reading V processed while the threshold is T is labelled High if
\* V > T and Normal otherwise (V = T is Normal), T being the threshold at
\* the moment of processing, whatever it was when the reading was emitted;
\* moving the slider changes the threshold only: the label of the reading
\* already processed and the saved values stay as they are.
C17_ClassifyAtProcessing ==
    [][ /\ (Dispatch /\ Head(queue).sig = "data_received")
             => LabelledNow(Head(queue).arg)
        /\ \A i \in 1 .. Len(simulated_values) :
             ClickSimulate(i) => LabelledNow(simulated_values[i])
        /\ \A value \in SliderValues :
             MoveSlider(value)
             => /\ d'.THRESHOLD = value
                /\ d'.torque_label = d.torque_label
                /\ d'.saved = d.saved
                /\ queue' = queue ]_vars

\* the readings 100 and 120 were processed, the slider was moved off 100
\* before the second, and 120 under the threshold 120 is labelled Normal
C17_Witness ==
    /\ d.THRESHOLD = 120
    /\ d.saved = <<100, 120>>
    /\ d.torque_label = "normal"
    /\ queue = <<>>

\* C18: every change of the session between Streaming and not Streaming
\* (is_connected) while the window is open is notified: the step either
\* processes a connection_status notification or emits one.
C18_TransitionsNotified ==
    [][ (d'.is_connected # d.is_connected /\ ~d'.closed)
        => \/ (Dispatch /\ Head(queue).sig = "connection_status")
           \/ \E i \in (Len(queue) + 1) .. Len(queue') :
                  queue'[i].sig = "connection_status" ]_vars

\* C19: while a scan thread is alive, a call of safe_scan_devices (the Scan
\* button is enabled, so the call can be made) starts no scan thread and
\* changes nothing.
C19_OneScanWorker ==
    ( /\ ~d.closed
      /\ d.btn_scan
      /\ \E s \in Scanners : ScanAlive(s) )
    => safe_scan_devices(d) = d

\* C20: a connection thread that had not yet reached its connect when a
\* stop was requested, and that finds the stop still in force
\* (connection_active False, window open), does not go on to build its
\* client and call connect.
C20_HaltBeforeConnect ==
    [][ \A w \in hist.stale :
          (wpc[w] = "start" /\ ~d.connection_active /\ ~d.closed)
          => wpc'[w] = "start" ]_vars

\* C21: the timeout of an attempt fires only while the attempt is still
\* connecting: once the thread has emitted "connected" and runs its read
\* loop, it never emits the timeout error and the "failed" status.
C21_TimeoutOnlyWhileConnecting ==
    [][ \A w \in Workers : WTimeout(w) => wpc[w] = "connecting" ]_vars

\* C22: a thread whose connect succeeded and that reaches its first loop
\* condition check with its client connected, no stop requested since the
\* attempt began and the window open, enters the read loop, whether its
\* queued "connected" status has been processed yet or not.
C22_LoopEntered ==
    [][ \A w \in Workers :
          ( /\ WLoop(w) /\ wpc[w] = "loop"
            /\ d.ble_client = w /\ clientConn[w]
            /\ d.app_running /\ ~d.closed
            /\ w \notin hist.stale
            /\ \E i \in 1 .. Len(queue) :
                   IsStatus(queue[i], "connected") /\ queue[i].by = w )
          => wpc'[w] = "reading" ]_vars

\* C23: while the session is Streaming and a scan can be started (the Scan
\* button is enabled), the error slot, which is what processes the error
\* of a scan that times out or fails, leaves is_connected and
\* connection_active as they are, so the loop condition of a running read
\* loop stays true.
C23_ForeignErrorKeepsSession ==
    ( /\ ~d.closed
      /\ d.btn_scan
      /\ d.is_connected /\ d.connection_active )
    => /\ on_error_occurred(d).is_connected = d.is_connected
       /\ on_error_occurred(d).connection_active = d.connection_active
       /\ LoopCondition(on_error_occurred(d), clientConn) = LoopCondition(d, clientConn)

\* the scan_completed notifications a step adds to the queue
NewCompleted(s) ==
    {i \in (Len(queue) + 1) .. Len(queue') :
         queue'[i].sig = "scan_completed" /\ queue'[i].by = s}

\* C24: the step in which a scan thread reports the end of its run emits
\* exactly one scan_completed and ends the thread, so nothing more is
\* emitted for that run; the flag is False when the scan timed out or
\* raised.
C24_OneScanCompleted ==
    [][ \A s \in Scanners :
          (spc[s] = "start" /\ spc'[s] # "start" /\ ~d.closed)
          => /\ Cardinality(NewCompleted(s)) = 1
             /\ spc'[s] = "done"
             /\ (STimeout(s) \/ SFail(s))
                => \A i \in NewCompleted(s) : queue'[i].arg = FALSE ]_vars

\* C25: a disconnect thread only ever disconnects a client that was the
\* session's client when a stop was requested, never the client a later
\* attempt has built since.
C25_DisconnectsStoppedClient ==
    [][ \A c \in Workers :
          (RunDisconnect /\ clientConn[c] /\ ~clientConn'[c])
          => c \in hist.stopped ]_vars

\* C26: retry_count stays within 0 .. max_retries; it grows only in a
\* monitor tick, by 1, together with the one attempt the tick starts; and
\* monitor_connection keeps it within 0 .. max_retries from every value in
\* that range put into a reachable state, with auto_retry on or off.
C26_RetryCountBounded ==
    [][ /\ d.retry_count \in 0 .. max_retries
        /\ d'.retry_count \in 0 .. max_retries
        /\ (d'.retry_count > d.retry_count)
           => /\ MonitorTick
              /\ d'.retry_count = d.retry_count + 1
              /\ d'.conn_started = d.conn_started + 1
        /\ \A rc \in 0 .. max_retries : \A ar \in BOOLEAN :
             LET s == [d EXCEPT !.retry_count = rc, !.auto_retry = ar,
                                !.is_connected = TRUE]
                 t == monitor_connection(s, clientConn)
             IN  /\ t.retry_count \in 0 .. max_retries
                 /\ t.retry_count \in {rc, rc + 1}
                 /\ (t.retry_count = rc + 1) <=> (t.conn_started = s.conn_started + 1) ]_vars

\* a monitor tick has started an automatic attempt and counted it
C26_Witness ==
    /\ note = "monitor_saw_loss"
    /\ d.auto_retry
    /\ d.retry_count = 1
    /\ d.conn_started = 2
    /\ d.connection_active

====
